---- MODULE Spec2Model ----
(***************************************************************************)
(* Model of twister.c: the Cokus MT19937 engine (seedMT, reloadMT,         *)
(* randomMT), bswap32, and the seed search loop of main.                   *)
(*                                                                         *)
(* A uint32_t is a pair <<hi, lo>> of 16-bit halves (value hi*2^16 + lo),  *)
(* so that every 32-bit operation keeps its width and wraps mod 2^32.      *)
(* A uint64_t is a pair <<high word, low word>> of such words.             *)
(* Byte order of the host is little-endian (the byte views of rand_data    *)
(* and rsa_output, BN_lebin2bn / BN_bn2lebinpad).                          *)
(***************************************************************************)
EXTENDS Integers, Sequences, FiniteSets, TLC

(* ------------------------- 32-bit arithmetic --------------------------- *)

RECURSIVE XorBits(_, _, _)
XorBits(a, b, n) ==
  IF n = 0 THEN 0
  ELSE ((a + b) % 2) + 2 * XorBits(a \div 2, b \div 2, n - 1)

RECURSIVE AndBits(_, _, _)
AndBits(a, b, n) ==
  IF n = 0 THEN 0
  ELSE ((a % 2) * (b % 2)) + 2 * AndBits(a \div 2, b \div 2, n - 1)

XorByte == [a \in 0..255 |-> [b \in 0..255 |-> XorBits(a, b, 8)]]

AndByte == [a \in 0..255 |-> [b \in 0..255 |-> AndBits(a, b, 8)]]

Xor16(a, b) ==
  XorByte[a \div 256][b \div 256] * 256 + XorByte[a % 256][b % 256]

And16(a, b) ==
  AndByte[a \div 256][b \div 256] * 256 + AndByte[a % 256][b % 256]

Pow2 == [k \in 0..16 |-> 2^k]

XorW(a, b) == <<Xor16(a[1], b[1]), Xor16(a[2], b[2])>>

AndW(a, b) == <<And16(a[1], b[1]), And16(a[2], b[2])>>

\* a | b == (a ^ b) + (a & b), bit by bit without carries
OrW(a, b) ==
  <<Xor16(a[1], b[1]) + And16(a[1], b[1]), Xor16(a[2], b[2]) + And16(a[2], b[2])>>

\* a >> k, 0 <= k <= 31
ShrW(a, k) ==
  IF k >= 16 THEN <<0, a[1] \div Pow2[k - 16]>>
  ELSE <<a[1] \div Pow2[k], (a[2] \div Pow2[k]) + (a[1] % Pow2[k]) * Pow2[16 - k]>>

\* (a << k) mod 2^32, 0 <= k <= 31
ShlW(a, k) ==
  IF k >= 16 THEN <<(a[2] % Pow2[32 - k]) * Pow2[k - 16], 0>>
  ELSE <<(a[1] % Pow2[16 - k]) * Pow2[k] + (a[2] \div Pow2[16 - k]),
         (a[2] % Pow2[16 - k]) * Pow2[k]>>

\* (a + b) mod 2^32
AddW(a, b) ==
  LET lo == a[2] + b[2]
  IN  <<(a[1] + b[1] + (lo \div 65536)) % 65536, lo % 65536>>

\* (x * 69069) mod 2^32, 69069 = 2^16 + 3533
Mul69069(x) ==
  LET lo == x[2] * 3533
  IN  <<(x[1] * 3533 + (lo \div 65536) + x[2]) % 65536, lo % 65536>>

ZeroW == <<0, 0>>

OneW == <<0, 1>>

(* ------------------------------ constants ------------------------------ *)

N == 624

M == 397

K == <<\H9908, \HB0DF>>

hiBit(u) == AndW(u, <<\H8000, 0>>)

loBit(u) == AndW(u, <<0, 1>>)

loBits(u) == AndW(u, <<\H7FFF, \HFFFF>>)

mixBits(u, v) == OrW(hiBit(u), loBits(v))

\* the cursor before any reloadMT: a static pointer, zero-initialised
NULL == -1

(* ------------------------------- engine -------------------------------- *)
(* An engine value is [state, next, left]: state is the array             *)
(* state[0..N], next the index the cursor points at, left the countdown.  *)

\* the loop of seedMT stopping one pass early
seedStep_stopEarly(r) ==
  IF r.j - 1 <= 1 THEN [r EXCEPT !.j = 0, !.run = FALSE]
  ELSE LET x2 == Mul69069(r.x)
       IN  [st |-> [r.st EXCEPT ![r.s] = x2], x |-> x2, s |-> r.s + 1,
            j |-> r.j - 1, run |-> TRUE]

\* One pass of the test and the increment of the for loop of seedMT,
\* r = [st, x, s, j, run]: --j is tested first; when it is nonzero the
\* (empty) body runs and then *s++ = (x *= 69069U) & 0xFFFFFFFFU.
seedStep(r) ==
  IF r.j - 1 = 0 THEN [r EXCEPT !.j = 0, !.run = FALSE]
  ELSE LET x2 == Mul69069(r.x)
       IN  [st |-> [r.st EXCEPT ![r.s] = x2], x |-> x2, s |-> r.s + 1,
            j |-> r.j - 1, run |-> TRUE]

\* the loop, run until its test fails (at most n passes, split in halves to
\* keep the evaluation shallow)
RECURSIVE seedLoop(_, _)
seedLoop(r, n) ==
  IF ~r.run \/ n = 0 THEN r
  ELSE IF n = 1 THEN seedStep(r)
  ELSE seedLoop(seedLoop(r, n \div 2), n - (n \div 2))

\* seedMT without the forcing of the low bit
seedMT_asGiven(eng, sd) ==
  LET r == seedLoop([st |-> [eng.state EXCEPT ![0] = sd], x |-> sd, s |-> 1,
                     j |-> N, run |-> TRUE], N)
  IN  [eng EXCEPT !.left = 0, !.state = r.st]

\* seedMT that leaves the countdown as it finds it
seedMT_keepLeft(eng, sd) ==
  LET x == AndW(OrW(sd, OneW), <<\HFFFF, \HFFFF>>)
      r == seedLoop([st |-> [eng.state EXCEPT ![0] = x], x |-> x, s |-> 1,
                     j |-> N, run |-> TRUE], N)
  IN  [eng EXCEPT !.state = r.st]

seedMT(eng, sd) ==
  LET x == AndW(OrW(sd, OneW), <<\HFFFF, \HFFFF>>)
      r == seedLoop([st |-> [eng.state EXCEPT ![0] = x], x |-> x, s |-> 1,
                     j |-> N, run |-> TRUE], N)
  IN  [eng EXCEPT !.left = 0, !.state = r.st]

\* the twist taking the magic constant on the low bit of s0
twist_loBitS0(pMv, s0, s1) ==
  XorW(XorW(pMv, ShrW(mixBits(s0, s1), 1)),
       IF loBit(s0) # ZeroW THEN K ELSE ZeroW)

\* lines 132, 135, 137: *pM ^ (mixBits(s0, s1) >> 1) ^ (loBit(s1) ? K : 0U)
twist(pMv, s0, s1) ==
  XorW(XorW(pMv, ShrW(mixBits(s0, s1), 1)),
       IF loBit(s1) # ZeroW THEN K ELSE ZeroW)

\* One pass of a for loop of reloadMT, r = [st, p0, p2, pM, s0, s1, j, run]:
\* the test --j, the body *p0++ = *pM++ ^ ..., the step s0 = s1, s1 = *p2++.
twistStep(r) ==
  IF r.j - 1 = 0 THEN [r EXCEPT !.j = 0, !.run = FALSE]
  ELSE LET st2 == [r.st EXCEPT ![r.p0] = twist(r.st[r.pM], r.s0, r.s1)]
       IN  [st |-> st2, p0 |-> r.p0 + 1, p2 |-> r.p2 + 1, pM |-> r.pM + 1,
            s0 |-> r.s1, s1 |-> st2[r.p2], j |-> r.j - 1, run |-> TRUE]

RECURSIVE twistLoop(_, _)
twistLoop(r, n) ==
  IF ~r.run \/ n = 0 THEN r
  ELSE IF n = 1 THEN twistStep(r)
  ELSE twistLoop(twistLoop(r, n \div 2), n - (n \div 2))

\* lines 138-141: the tempering at the end of reloadMT
temper(y0) ==
  LET y1 == XorW(y0, ShrW(y0, 11))
      y2 == XorW(y1, AndW(ShlW(y1, 7), <<\H9D2C, \H5680>>))
      y3 == XorW(y2, AndW(ShlW(y2, 15), <<\HEFC6, 0>>))
  IN  XorW(y3, ShrW(y3, 18))

\* reloadMT taking the fallback whenever the countdown is negative
reloadMT_anyNegative(eng) ==
  LET fb == eng.left < 0
      e1 == IF fb THEN seedMT(eng, OneW) ELSE eng
      r0 == [st |-> e1.state, p0 |-> 0, p2 |-> 2, pM |-> M,
             s0 |-> e1.state[0], s1 |-> e1.state[1], j |-> N - M + 1,
             run |-> TRUE]
      r1 == twistLoop(r0, N)
      r2 == twistLoop([r1 EXCEPT !.pM = 0, !.j = M, !.run = TRUE], N)
      s1 == r2.st[0]
      st == [r2.st EXCEPT ![r2.p0] = twist(r2.st[r2.pM], r2.s0, s1)]
  IN  [eng |-> [state |-> st, next |-> 1, left |-> N - 1],
       val |-> temper(s1), fb |-> fb]

\* reloadMT leaving the cursor on word 0
reloadMT_cursorAtZero(eng) ==
  LET fb == eng.left < -1
      e1 == IF fb THEN seedMT(eng, OneW) ELSE eng
      r0 == [st |-> e1.state, p0 |-> 0, p2 |-> 2, pM |-> M,
             s0 |-> e1.state[0], s1 |-> e1.state[1], j |-> N - M + 1,
             run |-> TRUE]
      r1 == twistLoop(r0, N)
      r2 == twistLoop([r1 EXCEPT !.pM = 0, !.j = M, !.run = TRUE], N)
      s1 == r2.st[0]
      st == [r2.st EXCEPT ![r2.p0] = twist(r2.st[r2.pM], r2.s0, s1)]
  IN  [eng |-> [state |-> st, next |-> 0, left |-> N - 1],
       val |-> temper(s1), fb |-> fb]

\* returns [eng, val, fb]: the engine after the call, the value returned and
\* whether the fallback seedMT(1U) of line 127 ran
reloadMT(eng) ==
  LET fb == eng.left < -1
      e1 == IF fb THEN seedMT(eng, OneW) ELSE eng
      r0 == [st |-> e1.state, p0 |-> 0, p2 |-> 2, pM |-> M,
             s0 |-> e1.state[0], s1 |-> e1.state[1], j |-> N - M + 1,
             run |-> TRUE]
      r1 == twistLoop(r0, N)
      r2 == twistLoop([r1 EXCEPT !.pM = 0, !.j = M, !.run = TRUE], N)
      s1 == r2.st[0]
      st == [r2.st EXCEPT ![r2.p0] = twist(r2.st[r2.pM], r2.s0, s1)]
  IN  [eng |-> [state |-> st, next |-> 1, left |-> N - 1],
       val |-> temper(s1), fb |-> fb]

\* the countdown taken down by two
randomMT_dec2(eng) == [eng EXCEPT !.left = eng.left - 2]

\* line 148: --left
randomMT_dec(eng) == [eng EXCEPT !.left = eng.left - 1]

\* lines 152-155: the tempering of randomMT with the second shift one short
temperY_shift6(y0) ==
  LET y1 == XorW(y0, ShrW(y0, 11))
      y2 == XorW(y1, AndW(ShlW(y1, 6), <<\H9D2C, \H5680>>))
      y3 == XorW(y2, AndW(ShlW(y2, 15), <<\HEFC6, 0>>))
  IN  XorW(y3, ShrW(y3, 18))

\* lines 152-155: the tempering of randomMT, its own copy of the code
temperY(y0) ==
  LET y1 == XorW(y0, ShrW(y0, 11))
      y2 == XorW(y1, AndW(ShlW(y1, 7), <<\H9D2C, \H5680>>))
      y3 == XorW(y2, AndW(ShlW(y2, 15), <<\HEFC6, 0>>))
  IN  XorW(y3, ShrW(y3, 18))

\* the read storing the tempered value back into the word it read
randomMT_read_writeBack(eng) ==
  [eng |-> [eng EXCEPT !.next = eng.next + 1,
                       !.state[eng.next] = temperY(eng.state[eng.next])],
   val |-> temperY(eng.state[eng.next]), fb |-> FALSE]

\* lines 151-155: y = *next++ and the tempering
randomMT_read(eng) ==
  [eng |-> [eng EXCEPT !.next = eng.next + 1],
   val |-> temperY(eng.state[eng.next]), fb |-> FALSE]

randomMT(eng) ==
  LET e1 == randomMT_dec(eng)
  IN  IF e1.left < 0 THEN reloadMT(e1) ELSE randomMT_read(e1)

bswap32(x) ==
  <<(x[2] % 256) * 256 + (x[2] \div 256), (x[1] % 256) * 256 + (x[1] \div 256)>>

(* --------------------------- candidate builder ------------------------- *)

\* byte k (0 = least significant) of a word, as the little-endian byte view
\* of a uint32_t array addresses it
ByteOf(w, k) ==
  IF k = 0 THEN w[2] % 256
  ELSE IF k = 1 THEN w[2] \div 256
  ELSE IF k = 2 THEN w[1] % 256
  ELSE w[1] \div 256

SetByteOf(w, k, v) ==
  IF k = 0 THEN <<w[1], (w[2] \div 256) * 256 + v>>
  ELSE IF k = 1 THEN <<w[1], v * 256 + (w[2] % 256)>>
  ELSE IF k = 2 THEN <<(w[1] \div 256) * 256 + v, w[2]>>
  ELSE <<v * 256 + (w[1] % 256), w[2]>>

\* the rule without the inner swap: mask, add, reverse the bytes
lastWord_oneSwap(w) ==
  bswap32(AddW(AndW(w, <<0, \HFFFF>>), <<0, \H0200>>))

\* the rule keeping 24 bits of the value drawn
lastWord_mask24(w) ==
  bswap32(AddW(bswap32(AndW(w, <<\H00FF, \HFFFF>>)), <<0, \H0200>>))

\* line 196: bswap32(bswap32(randomMT() & 0xFFFF) + 0x0200)
lastWord(w) ==
  bswap32(AddW(bswap32(AndW(w, <<0, \HFFFF>>)), <<0, \H0200>>))

\* lines 193-201: what rand_data[jj] receives from the value w just drawn
storeWord(rd, jj, w) ==
  [rd EXCEPT ![jj] = IF jj = 63 THEN lastWord(w) ELSE w]

\* the zeroing one byte too low
zeroByte244(rd) ==
  [rd EXCEPT ![244 \div 4] = SetByteOf(@, 244 % 4, 0)]

\* line 204: rand_data_bytes[245] = 0
zeroByte(rd) ==
  [rd EXCEPT ![245 \div 4] = SetByteOf(@, 245 % 4, 0)]

(* --------------------------- oracle and target ------------------------- *)

\* the modulus of line 173, most significant word first
ModulusN ==
  <<
     <<\HDE5A, \H5615>>, <<\HFDDA, \H3B76>>, <<\HB4EC, \HD875>>,
     <<\H4228, \H885E>>, <<\H7BF1, \H1FDD>>, <<\H6C8C, \H18AC>>,
     <<\H2423, \H0F7F>>, <<\H7700, \H06CF>>, <<\HE604, \H6538>>,
     <<\H4E6A, \H5AB4>>, <<\HDAA3, \H009A>>, <<\HBC65, \HBFF2>>,
     <<\HABB1, \HDA14>>, <<\H28CE, \H7A92>>, <<\H5366, \HA148>>,
     <<\H33DC, \HD181>>, <<\H83BA, \HD61B>>, <<\H2C66, \HF0D8>>,
     <<\HB9C4, \HC90B>>, <<\HF27F, \HE9D1>>, <<\HC55B, \HF283>>,
     <<\H0306, \HA13D>>, <<\H4559, \HDF60>>, <<\H783F, \H5809>>,
     <<\H547F, \HFD36>>, <<\H4DBC, \HCEA7>>, <<\HA7C2, \HFC32>>,
     <<\HA035, \H7CEB>>, <<\HA3E9, \H32AB>>, <<\HCAC6, \HBD63>>,
     <<\H9889, \H4A1A>>, <<\H22F6, \H3BDC>>, <<\H45B5, \HDA8B>>,
     <<\H3C4E, \H80F8>>, <<\HC097, \HCA7F>>, <<\HFD18, \HFF6C>>,
     <<\H78C8, \H1E94>>, <<\HC016, \HC080>>, <<\HEE6C, \H5322>>,
     <<\HE1AE, \HB59D>>, <<\H2123, \HDCE1>>, <<\HE4DD, \H20D0>>,
     <<\HF1CD, \HB017>>, <<\H326B, \H4FD8>>, <<\H13C0, \H60E8>>,
     <<\HD2AC, \HD62E>>, <<\H7033, \H4178>>, <<\H4DCA, \H6676>>,
     <<\H3223, \H3DE5>>, <<\H7DB8, \H20F1>>, <<\H4996, \H4B3F>>,
     <<\H4F0C, \H785C>>, <<\H39E2, \H534A>>, <<\H7AE3, \H6FD1>>,
     <<\H15B9, \HF064>>, <<\H5782, \H2F8A>>, <<\H9B7C, \HE753>>,
     <<\H3777, \HA4FB>>, <<\H0361, \H0D6B>>, <<\H4018, \HAB33>>,
     <<\H2BE4, \HE7AD>>, <<\H2F4A, \HC193>>, <<\H040E, \H5A03>>,
     <<\H7417, \HBC53>>
  >>

\* line 206: BN_lebin2bn(rand_data_bytes, 256, NULL): the buffer as an
\* unsigned integer, written most significant word first
lebin2bn(rd) == [i \in 1..64 |-> rd[64 - i]]

\* line 214: rsa_output_ints[0] == match, a uint32_t against a uint64_t
matchTest(o, m) == m[1] = ZeroW /\ m[2] = o[0]

(* ------------------------- state of the program ------------------------ *)

VARIABLES
  state, next, left,        \* the engine (lines 61-63)
  pc,                       \* where the caller of the engine stands
  ret,                      \* the value the last randomMT() returned
  seed, match, done,        \* main: lines 168, 169, 177
  current_seed, j,          \* main: lines 181, 182
  rand_data, rsa_output,    \* main: lines 189, 210
  oracle,                   \* the oracle's answers so far, {[in, out]}
  stdout, exit_status,      \* what main printed and returned
  start, trials,            \* argv[1] as parsed; trials begun so far
  seeded, calls, fallback,  \* the engine's caller: the last seed given to
                            \* seedMT, randomMT calls completed since, and
                            \* whether line 127 ran since
  reg,                      \* reloadMT's registers p0, p2, pM, s0, s1, j
  writes                    \* the indices of state reloadMT has stored to
                            \* since it was entered, in the order stored

engineVars == <<state, next, left>>

mainVars ==
  <<seed, match, done, current_seed, j, rand_data, rsa_output, oracle,
    stdout, exit_status, start, trials>>

clientVars == <<seeded, calls, fallback>>

reloadVars == <<reg, writes>>

vars == <<engineVars, pc, ret, mainVars, clientVars, reloadVars>>

Engine == [state |-> state, next |-> next, left |-> left]

FreshEngine == [state |-> [i \in 0..N |-> ZeroW], next |-> NULL, left |-> -1]

SetEngine(e) ==
  /\ state' = e.state
  /\ next' = e.next
  /\ left' = e.left

NoSeed == <<>>

\* the registers of reloadMT while it is not running
NoReg == [p0 |-> 0, p2 |-> 0, pM |-> 0, s0 |-> ZeroW, s1 |-> ZeroW, j |-> 0]

ZeroBuf == [i \in 0..63 |-> ZeroW]

(* ------------------------------- bounds -------------------------------- *)

MaxTrials == 3

MaxCalls == 1250

InitDense == 3

InitStride == 100

MaxLwLo == 40

\* argv[1]
StartSeeds == {<<\HDEAD, \HBEED>>, <<\HFFFF, \HFFFD>>, <<0, 0>>}

TargetA == <<\HE9D4, \H052A>>

TargetB == <<\H1234, \H5678>>

AllOnes == <<\HFFFF, \HFFFF>>

\* argv[2]
Targets == {<<ZeroW, TargetA>>, <<TargetB, TargetA>>, <<AllOnes, AllOnes>>}

\* an oracle output whose first two words are a and b
OracleOutput(a, b) ==
  [i \in 0..63 |-> IF i = 0 THEN a ELSE IF i = 1 THEN b ELSE <<i, i>>]

\* what BN_mod_exp may answer
OracleOutputs ==
  {OracleOutput(TargetA, ZeroW), OracleOutput(TargetA, TargetB),
   OracleOutput(<<\H0BAD, \HF00D>>, ZeroW)}

\* seeds a caller of the engine passes to seedMT
Seeds == {<<0, 0>>, <<0, 1>>, <<\HDEAD, \HBEEE>>, <<\HDEAD, \HBEEF>>}

\* values of the 64th draw tried on the last-word rule
LastWordInputs ==
  {<<h, l>> : h \in {0, 1, \HABCD, \HFFFF},
              l \in (0..MaxLwLo) \cup {65535 - k : k \in 0..MaxLwLo}
                    \cup {\H7FFF, \H8000, \HFDFF, \HFE00}}

(* ------------------ reference runs of a fresh engine ------------------- *)

\* one more call of randomMT, r = [eng, vals, n]: the engine, the values
\* returned so far, and how many are wanted
drainStep(r) ==
  LET x == randomMT(r.eng)
  IN  [eng |-> x.eng, vals |-> Append(r.vals, x.val), n |-> r.n]

\* calls of randomMT in a row until r.n values are returned (at most k more)
RECURSIVE drainLoop(_, _)
drainLoop(r, k) ==
  IF Len(r.vals) >= r.n \/ k = 0 THEN r
  ELSE IF k = 1 THEN drainStep(r)
  ELSE drainLoop(drainLoop(r, k \div 2), k - (k \div 2))

drain(eng, n) == drainLoop([eng |-> eng, vals |-> <<>>, n |-> n], n)

\* the n values initialize(S), next() x n return on a new engine
Outputs(S, n) == drain(seedMT(FreshEngine, S), n).vals

\* the candidate the builder of lines 189-204 makes of 64 drawn values
BuildCandidate(vals) ==
  zeroByte([i \in 0..63 |-> IF i = 63 THEN lastWord(vals[64]) ELSE vals[i + 1]])

SeededRef == [s \in Seeds |-> seedMT(FreshEngine, s)]

EngineRef == [s \in Seeds |-> Outputs(s, MaxCalls)]

\* a seed with its low bit inverted: 2k for 2k+1, 2k+1 for 2k
FlipLow(s) == <<s[1], IF s[2] % 2 = 0 THEN s[2] + 1 ELSE s[2] - 1>>

\* every seed a trial may run on, and each with its low bit inverted
TrialSeeds ==
  LET run == {AddW(s, <<0, 2 * k>>) : s \in StartSeeds, k \in 0..(MaxTrials - 1)}
  IN  run \cup {FlipLow(s) : s \in run}

TrialRef == [s \in TrialSeeds |-> Outputs(s, 64)]

(* --------------------------------- main -------------------------------- *)

InitCommon ==
  /\ state = FreshEngine.state
  /\ next = FreshEngine.next
  /\ left = FreshEngine.left
  /\ done = 0
  /\ current_seed = ZeroW
  /\ rand_data = ZeroBuf
  /\ rsa_output = ZeroBuf
  /\ oracle = {}
  /\ stdout = <<>>
  /\ exit_status = "none"
  /\ trials = 0
  /\ seeded = NoSeed
  /\ calls = 0
  /\ fallback = FALSE
  /\ reg = NoReg
  /\ writes = <<>>

\* lines 166-177
InitMain ==
  /\ InitCommon
  /\ seed \in StartSeeds
  /\ start = seed
  /\ match \in Targets
  /\ j = 0
  /\ ret = ZeroW
  /\ pc = "while"

\* the loop going back to its start seed when seed + 2 passes 2^32
MainTrial_restartOnWrap ==
  /\ pc = "while"
  /\ done = 0
  /\ trials < MaxTrials
  /\ trials' = trials + 1
  /\ current_seed' = seed
  /\ seed' = IF seed[1] = 65535 /\ seed[2] >= 65534 THEN start
             ELSE AddW(seed, <<0, 2>>)
  /\ SetEngine(seedMT([Engine EXCEPT !.left = -1], seed))
  /\ j' = 0
  /\ pc' = "for"
  /\ UNCHANGED <<ret, match, done, rand_data, rsa_output, oracle, stdout,
                 exit_status, start, clientVars>>
  /\ UNCHANGED reloadVars

\* lines 178-188: the loop test passes, the trial's seed is taken and the
\* engine is initialised
MainTrial ==
  /\ pc = "while"
  /\ done = 0
  /\ trials < MaxTrials
  /\ trials' = trials + 1
  /\ current_seed' = seed
  /\ seed' = AddW(seed, <<0, 2>>)
  /\ SetEngine(seedMT([Engine EXCEPT !.left = -1], seed))
  /\ j' = 0
  /\ pc' = "for"
  /\ UNCHANGED <<ret, match, done, rand_data, rsa_output, oracle, stdout,
                 exit_status, start, clientVars>>
  /\ UNCHANGED reloadVars

\* lines 191-202: one pass of the for loop
MainDraw ==
  /\ pc = "for"
  /\ j < 64
  /\ LET r == randomMT(Engine)
     IN  /\ SetEngine(r.eng)
         /\ ret' = r.val
         /\ rand_data' = storeWord(rand_data, j, r.val)
  /\ j' = j + 1
  /\ UNCHANGED <<pc, seed, match, done, current_seed, rsa_output, oracle,
                 stdout, exit_status, start, trials, clientVars>>
  /\ UNCHANGED reloadVars

\* the report with the seed variable, already advanced, in place of
\* current_seed
ReportAdvancedSeed(cs, rd, o) ==
  [Seed |-> AddW(cs, <<0, 2>>), KeyData |-> rd, SeedData |-> o]

\* lines 217-229
Report(cs, rd, o) == [Seed |-> cs, KeyData |-> rd, SeedData |-> o]

\* lines 204-230: the for loop is over; byte 245, the oracle, the test
MainCheck ==
  /\ pc = "for"
  /\ j = 64
  /\ LET rd == zeroByte(rand_data)
     IN  /\ rand_data' = rd
         /\ \E o \in OracleOutputs :
              /\ \A m \in oracle : m.in = lebin2bn(rd) => m.out = o
              /\ oracle' = oracle \cup {[in |-> lebin2bn(rd), out |-> o]}
              /\ rsa_output' = o
              /\ IF matchTest(o, match)
                 THEN /\ done' = 1
                      /\ stdout' = Append(stdout, Report(current_seed, rd, o))
                 ELSE UNCHANGED <<done, stdout>>
  /\ pc' = "while"
  /\ UNCHANGED <<engineVars, ret, seed, match, current_seed, j, exit_status,
                 start, trials, clientVars>>
  /\ UNCHANGED reloadVars

\* main returning also when the seed counter has wrapped
MainReturnOnWrap ==
  /\ pc = "while"
  /\ (done # 0 \/ (trials > 0 /\ seed[1] < current_seed[1]))
  /\ exit_status' = "EXIT_SUCCESS"
  /\ pc' = "returned"
  /\ UNCHANGED <<engineVars, ret, seed, match, done, current_seed, j,
                 rand_data, rsa_output, oracle, stdout, start, trials,
                 clientVars>>
  /\ UNCHANGED reloadVars

\* lines 178, 233: the loop test fails, main returns
MainReturn ==
  /\ pc = "while"
  /\ done # 0
  /\ exit_status' = "EXIT_SUCCESS"
  /\ pc' = "returned"
  /\ UNCHANGED <<engineVars, ret, seed, match, done, current_seed, j,
                 rand_data, rsa_output, oracle, stdout, start, trials,
                 clientVars>>
  /\ UNCHANGED reloadVars

NextMain == MainTrial \/ MainDraw \/ MainCheck \/ MainReturn

SpecMain == InitMain /\ [][NextMain]_vars

\* main has a step to take: the for loop is running (lines 191-230), or the
\* loop test of line 178 is to be made and a trial or the return follows
MainCanStep ==
  pc = "for" \/ (pc = "while" /\ (done # 0 \/ trials < MaxTrials))

\* a step of main as its position shows it: every action of NextMain moves
\* pc or j, and is enabled exactly where MainCanStep holds
MainStep ==
  /\ MainCanStep
  /\ pc' \in {"while", "for", "returned"}
  /\ j' \in 0..64

\* main is one sequential process: while it has a step to take, it takes it
SpecMainLive == SpecMain /\ WF_<<pc, j>>(MainStep)

(* ------------------- the engine under any caller ----------------------- *)

InitEngine ==
  /\ InitCommon
  /\ seed = ZeroW
  /\ start = ZeroW
  /\ match = <<ZeroW, ZeroW>>
  /\ j = 0
  /\ ret = ZeroW
  /\ pc = "idle"

\* where the caller is let to call seedMT
ClientMayInit ==
  \/ calls < InitDense
  \/ calls % InitStride = 0
  \/ left \in {0, N - 1}

CallSeedMT ==
  /\ pc = "idle"
  /\ ClientMayInit
  /\ \E s \in Seeds :
       /\ SetEngine(seedMT(Engine, s))
       /\ seeded' = s
  /\ calls' = 0
  /\ fallback' = FALSE
  /\ UNCHANGED <<pc, ret, mainVars>>
  /\ UNCHANGED reloadVars

\* line 148: --left < 0
CallRandomMT ==
  /\ pc = "idle"
  /\ calls < MaxCalls
  /\ SetEngine(randomMT_dec(Engine))
  /\ pc' = IF left' < 0 THEN "reloadMT" ELSE "read"
  /\ UNCHANGED <<ret, mainVars, clientVars>>
  /\ UNCHANGED reloadVars

\* line 149: return (reloadMT())
ReturnReloadMT ==
  /\ pc = "reloadMT"
  /\ LET r == reloadMT(Engine)
     IN  /\ SetEngine(r.eng)
         /\ ret' = r.val
         /\ fallback' = (fallback \/ r.fb)
  /\ calls' = calls + 1
  /\ pc' = "idle"
  /\ UNCHANGED <<mainVars, seeded>>
  /\ UNCHANGED reloadVars

\* lines 151-155
ReturnRead ==
  /\ pc = "read"
  /\ LET r == randomMT_read(Engine)
     IN  /\ SetEngine(r.eng)
         /\ ret' = r.val
  /\ calls' = calls + 1
  /\ pc' = "idle"
  /\ UNCHANGED <<mainVars, seeded, fallback>>
  /\ UNCHANGED reloadVars

NextEngine == CallSeedMT \/ CallRandomMT \/ ReturnReloadMT \/ ReturnRead

SpecEngine == InitEngine /\ [][NextEngine]_vars

(* ---------------------- reloadMT, store by store ---------------------- *)

\* the engine as randomMT hands it to reloadMT at the start of the second
\* batch after seedMT(s): N calls made, the countdown just taken to -1
SecondBatch == [s \in Seeds |-> randomMT_dec(drain(SeededRef[s], N).eng)]

\* line 149 reached, reloadMT about to run: on an engine just initialized,
\* on one whose first batch is used up, or on one never initialized
InitReload ==
  /\ done = 0
  /\ current_seed = ZeroW
  /\ rand_data = ZeroBuf
  /\ rsa_output = ZeroBuf
  /\ oracle = {}
  /\ stdout = <<>>
  /\ exit_status = "none"
  /\ trials = 0
  /\ seed = ZeroW
  /\ start = ZeroW
  /\ match = <<ZeroW, ZeroW>>
  /\ j = 0
  /\ ret = ZeroW
  /\ fallback = FALSE
  /\ reg = NoReg
  /\ writes = <<>>
  /\ pc = "reloadMT_entry"
  /\ \/ \E s \in Seeds :
          /\ seeded = s
          /\ calls = 0
          /\ state = SeededRef[s].state
          /\ next = SeededRef[s].next
          /\ left = SeededRef[s].left - 1
     \/ \E s \in Seeds :
          /\ seeded = s
          /\ calls = N
          /\ state = SecondBatch[s].state
          /\ next = SecondBatch[s].next
          /\ left = SecondBatch[s].left
     \/ /\ seeded = NoSeed
        /\ calls = 0
        /\ state = FreshEngine.state
        /\ next = FreshEngine.next
        /\ left = FreshEngine.left - 1

reloadFrame ==
  UNCHANGED <<ret, mainVars, seeded, calls>>

\* lines 123-131: the fallback, left and next, and the registers as the
\* first for statement sets them up
ReloadEnter ==
  /\ pc = "reloadMT_entry"
  /\ LET e1 == IF left < -1 THEN seedMT(Engine, OneW) ELSE Engine
     IN  /\ state' = e1.state
         /\ reg' = [p0 |-> 0, p2 |-> 2, pM |-> M, s0 |-> e1.state[0],
                    s1 |-> e1.state[1], j |-> N - M + 1]
  /\ fallback' = (fallback \/ left < -1)
  /\ left' = N - 1
  /\ next' = 1
  /\ writes' = <<>>
  /\ pc' = "reloadMT_loop1"
  /\ reloadFrame

\* one test of --j in a for loop of reloadMT and, when it passes, the body
\* and the step; when it fails the loop is left for lp
ReloadPass(here, lp, pM0, j0) ==
  /\ pc = here
  /\ LET r == twistStep([st |-> state, p0 |-> reg.p0, p2 |-> reg.p2,
                         pM |-> reg.pM, s0 |-> reg.s0, s1 |-> reg.s1,
                         j |-> reg.j, run |-> TRUE])
     IN  IF r.run
         THEN /\ state' = r.st
              /\ reg' = [p0 |-> r.p0, p2 |-> r.p2, pM |-> r.pM, s0 |-> r.s0,
                         s1 |-> r.s1, j |-> r.j]
              /\ writes' = Append(writes, reg.p0)
              /\ pc' = here
         ELSE /\ reg' = [reg EXCEPT !.pM = pM0, !.j = j0]
              /\ pc' = lp
              /\ UNCHANGED <<state, writes>>
  /\ UNCHANGED <<next, left, fallback>>
  /\ reloadFrame

\* lines 131-132; on leaving, the set-up of line 134: pM = state, j = M
ReloadLoop1 == ReloadPass("reloadMT_loop1", "reloadMT_loop2", 0, M)

\* lines 134-135
ReloadLoop2 == ReloadPass("reloadMT_loop2", "reloadMT_wrap", reg.pM, 0)

\* line 137: s1 = state[0], *p0 = *pM ^ ...
ReloadWrap ==
  /\ pc = "reloadMT_wrap"
  /\ LET s1 == state[0]
     IN  /\ state' = [state EXCEPT ![reg.p0] = twist(state[reg.pM], reg.s0, s1)]
         /\ reg' = [reg EXCEPT !.s1 = s1]
  /\ writes' = Append(writes, reg.p0)
  /\ pc' = "reloadMT_temper"
  /\ UNCHANGED <<next, left, fallback>>
  /\ reloadFrame

\* lines 138-141: the value returned, to randomMT and by it to the caller
ReloadReturn ==
  /\ pc = "reloadMT_temper"
  /\ ret' = temper(reg.s1)
  /\ calls' = calls + 1
  /\ pc' = "reloadMT_done"
  /\ UNCHANGED <<engineVars, mainVars, seeded, fallback, reloadVars>>

NextReload ==
  ReloadEnter \/ ReloadLoop1 \/ ReloadLoop2 \/ ReloadWrap \/ ReloadReturn

SpecReload == InitReload /\ [][NextReload]_vars

(* ---------------------- main and any other caller ---------------------- *)

Init == InitMain \/ InitEngine

Next == NextMain \/ NextEngine

Spec == Init /\ [][Next]_vars

(* --------------------- the last-word rule on its own ------------------- *)

\* the state of main at line 196 with the 64th value just returned
InitLastWord ==
  /\ InitCommon
  /\ seed = ZeroW
  /\ start = ZeroW
  /\ match = <<ZeroW, ZeroW>>
  /\ j = 63
  /\ ret \in LastWordInputs
  /\ pc = "store"

\* line 196
StoreLastWord ==
  /\ pc = "store"
  /\ j = 63
  /\ rand_data' = storeWord(rand_data, j, ret)
  /\ j' = j + 1
  /\ pc' = "stored"
  /\ UNCHANGED <<engineVars, ret, seed, match, done, current_seed,
                 rsa_output, oracle, stdout, exit_status, start, trials,
                 clientVars>>
  /\ UNCHANGED reloadVars

NextLastWord == StoreLastWord

SpecLastWord == InitLastWord /\ [][NextLastWord]_vars

\* main, and the last-word rule on every value tried
InitCandidate == InitMain \/ InitLastWord

NextCandidate == NextMain \/ NextLastWord

SpecCandidate == InitCandidate /\ [][NextCandidate]_vars


(* ================================ claims =============================== *)

\* a trial has run to its end: the loop is back at its test, or main returned
TrialDone == pc \in {"while", "returned"} /\ trials > 0

\* the first 8 bytes of an oracle output as one little-endian 64-bit integer
Prefix64(o) == <<o[1], o[0]>>

\* byte off of a 256-byte buffer kept as 64 words
BufByte(rd, off) == ByteOf(rd[off \div 4], off % 4)

\* C1: a trial ends in Found if and only if the first 8 bytes of the oracle
\* output, read as one little-endian 64-bit integer, equal the target: no
\* trial with another prefix is reported and none with that prefix is skipped.
C1_FoundIffPrefix64 ==
  TrialDone => ((done = 1) <=> (Prefix64(rsa_output) = match))

\* C2: the trials run on start, start+2, start+4, ... (mod 2^32) in order;
\* a trial is begun only while no earlier trial passed the test of the loop;
\* the loop is Found exactly when the trial just run passed it; and the one
\* report printed carries the seed given to seedMT for that trial, the
\* candidate the builder makes for that seed, and that trial's oracle output.
C2_State ==
  /\ seed = AddW(start, <<0, 2 * trials>>)
  /\ trials > 0 => current_seed = AddW(start, <<0, 2 * (trials - 1)>>)
  /\ Len(stdout) <= 1
  /\ TrialDone => ((done = 1) <=> matchTest(rsa_output, match))
  /\ TrialDone => ((done = 1) <=> (Len(stdout) = 1))
  /\ Len(stdout) = 1 =>
       /\ stdout[1].Seed = current_seed
       /\ stdout[1].KeyData = BuildCandidate(TrialRef[stdout[1].Seed])
       /\ stdout[1].KeyData = rand_data
       /\ stdout[1].SeedData = rsa_output
       /\ matchTest(stdout[1].SeedData, match)

C2_Step ==
  /\ trials' # trials =>
       /\ trials' = trials + 1
       /\ done = 0
       /\ trials > 0 => ~matchTest(rsa_output, match)
  /\ done = 1 =>
       /\ done' = 1
       /\ UNCHANGED <<trials, stdout, current_seed, rand_data, rsa_output>>

C2_FirstMatchReported == [](C2_State) /\ [][C2_Step]_vars

\* the trial of start did not pass the test, the trial of start+2 did, and
\* the loop ended Found reporting start+2
C2_Witness ==
  /\ pc = "returned"
  /\ trials = 2
  /\ start = <<\HDEAD, \HBEED>>
  /\ Len(stdout) = 1
  /\ stdout[1].Seed = <<\HDEAD, \HBEEF>>

\* C3: with w1..w64 the first 64 values of a new engine after initialize(S),
\* the candidate of the trial on S has (a) byte 245 zero, (b) its last group
\* equal to byteswap(byteswap(w64 & 0xFFFF) + 0x0200), (c) every other byte
\* equal to the same byte of w1..w63 laid out as little-endian groups.
C3_CandidateLayout ==
  TrialDone =>
    LET w == TrialRef[current_seed]
    IN  /\ BufByte(rand_data, 245) = 0
        /\ rand_data[63] =
             bswap32(AddW(bswap32(AndW(w[64], <<0, \HFFFF>>)), <<0, \H0200>>))
        /\ \A off \in (0..251) \ {245} :
             BufByte(rand_data, off) = ByteOf(w[(off \div 4) + 1], off % 4)
        /\ \A i \in (0..62) \ {61} : rand_data[i] = w[i + 1]
        /\ rand_data[61][1] = w[62][1]
        /\ rand_data[61][2] % 256 = w[62][2] % 256

\* a finished trial whose 62nd value has a nonzero second byte, so that byte
\* 245 was really cleared
C3_Witness ==
  /\ TrialDone
  /\ current_seed = <<\HFFFF, \HFFFF>>
  /\ ByteOf(TrialRef[current_seed][62], 1) # 0
  /\ BufByte(rand_data, 245) = 0

\* C4: initialize(2k) and initialize(2k+1) leave the same 624 words and the
\* same countdown, the values next() returns after either are the same, and
\* a trial builds the candidate of its seed with the low bit inverted.
C4_OddSeedFolding ==
  /\ (pc = "idle" /\ seeded # NoSeed /\ calls = 0) =>
       /\ \A i \in 0..(N - 1) : state[i] = SeededRef[FlipLow(seeded)].state[i]
       /\ left = SeededRef[FlipLow(seeded)].left
  /\ (pc = "idle" /\ seeded # NoSeed /\ calls > 0) =>
       ret = EngineRef[FlipLow(seeded)][calls]
  /\ (pc = "for" /\ j > 0 /\ j < 64) => ret = TrialRef[FlipLow(current_seed)][j]
  /\ TrialDone => rand_data = BuildCandidate(TrialRef[FlipLow(current_seed)])

\* an even seed was given and N + 1 calls later, the second regeneration
\* done, next() has returned what it returns for the odd seed
C4_Witness ==
  /\ pc = "idle"
  /\ seeded = <<\HDEAD, \HBEEE>>
  /\ calls = N + 1
  /\ ret = EngineRef[<<\HDEAD, \HBEEF>>][N + 1]

\* C5: the values initialize(S), next() x n return are those a new engine
\* returns for S, whatever the engine went through before; the candidate of
\* a trial is the one a new engine gives for the trial's seed.
C5_Determinism ==
  /\ (pc = "idle" /\ seeded # NoSeed /\ calls > 0) =>
       ret = EngineRef[seeded][calls]
  /\ (pc = "for" /\ j > 0) => ret = TrialRef[current_seed][j]
  /\ TrialDone => rand_data = BuildCandidate(TrialRef[current_seed])

\* a third trial, on an engine two earlier trials have used, is over
C5_Witness ==
  /\ TrialDone
  /\ trials = 3
  /\ rand_data = BuildCandidate(TrialRef[current_seed])

\* C6 as stated: the countdown is in [-1, 623] in every reachable state.
C6_Original == left \in -1..623

\* C6 amended: the countdown is in [-2, 623]; it is -2 only inside the first
\* next() of an engine never initialized, between the decrement and the
\* fallback seeding; elsewhere it is in [-1, 623].
C6_CountdownRange ==
  /\ left \in -2..623
  /\ left = -2 => (pc = "reloadMT" /\ seeded = NoSeed /\ calls = 0)

\* next() has decremented the countdown of an initialized engine to -1 and
\* the regeneration has not run yet
C6_Witness ==
  /\ pc = "reloadMT"
  /\ seeded # NoSeed
  /\ calls = N
  /\ left = -1

\* C7: main returns only after a trial passed the test and its report was
\* printed; nothing is printed before; while no trial has passed, the only
\* step the loop takes from its test is the trial of the next seed,
\* start + 2 * trials (mod 2^32), also across the wrap of the counter, which
\* is back at its value after 2^31 trials.
C7_State ==
  /\ exit_status # "none" <=> pc = "returned"
  /\ pc = "returned" =>
       /\ done = 1
       /\ Len(stdout) = 1
       /\ matchTest(stdout[1].SeedData, match)
  /\ stdout # <<>> => (done = 1 /\ matchTest(rsa_output, match))
  /\ (TrialDone /\ ~matchTest(rsa_output, match)) => (done = 0 /\ pc = "while")
  /\ seed = AddW(start, <<0, 2 * trials>>)
  /\ AddW(seed, ShlW(<<0, 2>>, 31)) = seed

C7_Step ==
  /\ (pc' = "returned" /\ pc # "returned") => (pc = "while" /\ done = 1)
  /\ (pc = "while" /\ done = 0) =>
       /\ pc' = "for"
       /\ trials' = trials + 1
       /\ current_seed' = seed
       /\ seed' = AddW(seed, <<0, 2>>)
       /\ UNCHANGED <<stdout, exit_status, done>>

C8_FallbackSeeding ==
  /\ (pc = "idle" /\ seeded = NoSeed /\ calls > 0) =>
       (ret = EngineRef[OneW][calls] /\ fallback)
  /\ seeded # NoSeed => ~fallback

\* a never-initialized engine has been read past its second regeneration
C8_Witness ==
  /\ pc = "idle"
  /\ seeded = NoSeed
  /\ calls = N + 1
  /\ fallback
  /\ ret = EngineRef[OneW][N + 1]

WordLt(x, y) == x[1] < y[1] \/ (x[1] = y[1] /\ x[2] < y[2])

\* a < b for two numbers written as 64 words, most significant first
RECURSIVE BigLtFrom(_, _, _)
BigLtFrom(a, b, i) ==
  IF i > 64 THEN FALSE
  ELSE IF a[i] = b[i] THEN BigLtFrom(a, b, i + 1)
  ELSE WordLt(a[i], b[i])

\* C9: the candidate, read as a little-endian 2048-bit integer, is below the
\* modulus; its byte 255 is 0x00 and its byte 254 is 0x02, whatever value
\* was drawn, and the top byte of the modulus is 0xDE.
C9_BelowModulus ==
  /\ j = 64 =>
       /\ BufByte(rand_data, 255) = 0
       /\ BufByte(rand_data, 254) = 2
       /\ BigLtFrom(lebin2bn(rand_data), ModulusN, 1)
  /\ (TrialDone /\ oracle # {}) =>
       \A m \in oracle : BigLtFrom(m.in, ModulusN, 1)
  /\ ModulusN[1][1] \div 256 = \HDE

\* a trial is over whose 64th value had all its upper 16 bits set to some
\* value and a candidate was handed to the oracle
C9_Witness ==
  /\ TrialDone
  /\ ret[1] > \HFF
  /\ BufByte(rand_data, 255) = 0
  /\ BufByte(rand_data, 253) # 0
  /\ lebin2bn(rand_data) \in {m.in : m \in oracle}

\* C10 as stated: the last group, read as a little-endian word, is
\* byteswap((w & 0xFFFF) + 0x0200) for the 64th value w.
C10_Original ==
  j = 64 => rand_data[63] = bswap32(AddW(AndW(ret, <<0, \HFFFF>>), <<0, \H0200>>))

\* C10 amended: the last group, read as a little-endian word, is
\* byteswap(byteswap(w & 0xFFFF) + 0x0200), which is (w & 0xFFFF) + 0x00020000:
\* its bytes are the two low bytes of w, then 0x02, then 0x00.
C10_LastWordRule ==
  j = 64 =>
    /\ rand_data[63] = <<2, ret[2]>>
    /\ BufByte(rand_data, 252) = ret[2] % 256
    /\ BufByte(rand_data, 253) = ret[2] \div 256
    /\ BufByte(rand_data, 254) = 2
    /\ BufByte(rand_data, 255) = 0

\* the rule was applied to a value whose low half would carry had 0x0200
\* been added to it unswapped
C10_Witness ==
  /\ pc = "stored"
  /\ j = 64
  /\ ret = <<\HABCD, \HFE00>>
  /\ rand_data[63] = <<2, \HFE00>>

\* (69069 * x) mod 2^32 by shifts and adds: 69069 = 2^16 + 2^11 + 2^10 + 2^8
\* + 2^7 + 2^6 + 2^3 + 2^2 + 1
Times69069(x) ==
  AddW(AddW(AddW(AddW(ShlW(x, 16), ShlW(x, 11)), AddW(ShlW(x, 10), ShlW(x, 8))),
            AddW(AddW(ShlW(x, 7), ShlW(x, 6)), AddW(ShlW(x, 3), ShlW(x, 2)))), x)

\* s | 1
OddOf(s) == <<s[1], IF s[2] % 2 = 0 THEN s[2] + 1 ELSE s[2]>>

\* the engine holds what initialize(s) leaves
SeedImage(s) ==
  /\ state[0] = OddOf(s)
  /\ \A i \in 1..(N - 1) : state[i] = Times69069(state[i - 1])
  /\ left = 0

\* a step in which seedMT ran: called by the engine's caller, or by main
SeedMTStep == (pc = "idle" /\ pc' = "idle") \/ (pc = "while" /\ pc' = "for")

\* C11: initialize(seed) writes the words 0..623 with x[0] = seed | 1 and
\* x[i] = (69069 * x[i-1]) mod 2^32, whatever they held before, and writes no
\* word beyond index 623; it sets the countdown to 0, so that the next next()
\* regenerates; it does not touch the cursor; it always returns.
C11_State ==
  /\ (pc = "idle" /\ seeded # NoSeed /\ calls = 0) => SeedImage(seeded)
  /\ (pc = "for" /\ j = 0) => SeedImage(current_seed)

C11_Step ==
  /\ SeedMTStep =>
       /\ state'[N] = state[N]
       /\ next' = next
       /\ left' = 0
       /\ \A i \in 0..(N - 1) : state'[i] # ZeroW
  /\ (pc = "idle" /\ seeded # NoSeed /\ calls = 0 /\ pc' # "idle") =>
       pc' = "reloadMT"
  /\ (pc = "for" /\ j = 0 /\ j' = 1) => (left' = N - 1 /\ next' = 1)

C11_InitializeWritesAll == [](C11_State) /\ [][C11_Step]_vars

\* initialize ran in the middle of a batch, on an engine whose words a
\* regeneration had rewritten: the 624 words are those of the seed and the
\* cursor is where the reads had left it
C11_Witness ==
  /\ pc = "idle"
  /\ seeded = <<\HDEAD, \HBEEE>>
  /\ calls = 0
  /\ next = InitStride
  /\ state[0] = <<\HDEAD, \HBEEF>>
  /\ state[N - 1] = SeededRef[<<\HDEAD, \HBEEF>>].state[N - 1]
  /\ left = 0

\* the seed the engine really starts from in trial number t (t = 1, 2, ...)
EffectiveSeed(t) == AddW(OddOf(start), <<0, 2 * (t - 1)>>)

\* no trial run so far passed the test of the loop
NoMatchSoFar == \A m \in oracle : ~matchTest(m.out, match)

\* C12: from any start seed, odd or even, trial t runs the engine on
\* (s0 | 1) + 2(t-1) mod 2^32, an odd value; these values are pairwise
\* distinct over 2^31 consecutive trials (adding 2 has period exactly 2^31:
\* 2 * 2^31 = 0 and 2 * 2^30 # 0 mod 2^32), hence are all the odd values,
\* those below s0 coming after the counter wraps; and the loop goes on until
\* a trial passes the test, so that it ends Found at the first seed of the
\* run that matches. Every step main takes starts where MainCanStep holds
\* and moves pc or j.
C12_State ==
  /\ (pc = "for" /\ j = 0) =>
       /\ state[0] = EffectiveSeed(trials)
       /\ state[0] = OddOf(current_seed)
       /\ state[0][2] % 2 = 1
  /\ \A a, b \in 1..trials : a # b => EffectiveSeed(a) # EffectiveSeed(b)
  /\ AddW(seed, ShlW(<<0, 2>>, 31)) = seed
  /\ AddW(seed, ShlW(<<0, 2>>, 30)) # seed
  /\ done = 0 => NoMatchSoFar
  /\ done = 1 =>
       /\ Len(stdout) = 1
       /\ OddOf(stdout[1].Seed) = EffectiveSeed(trials)
       /\ rand_data = BuildCandidate(TrialRef[EffectiveSeed(trials)])

C12_Step ==
  /\ MainCanStep
  /\ <<pc, j>>' # <<pc, j>>
  /\ (pc = "while" /\ done = 0) =>
       (pc' = "for" /\ trials' = trials + 1 /\ seed' = AddW(seed, <<0, 2>>))

C12_Live ==
  <>(pc = "returned" \/ (pc = "while" /\ trials = MaxTrials /\ NoMatchSoFar))

RefTwistStep(r) ==
  LET i == r.i
      a == r.cur[(i + 397) % 624]
      b == IF i < 623 THEN r.old[i + 1] ELSE r.cur[0]
      y == OrW(AndW(r.old[i], <<\H8000, 0>>), AndW(b, <<\H7FFF, \HFFFF>>))
      w == XorW(XorW(a, ShrW(y, 1)),
                IF b[2] % 2 = 1 THEN <<\H9908, \HB0DF>> ELSE <<0, 0>>)
  IN  [old |-> r.old, cur |-> [r.cur EXCEPT ![i] = w], i |-> i + 1]

RECURSIVE RefTwistLoop(_, _)
RefTwistLoop(r, n) ==
  IF r.i >= 624 \/ n = 0 THEN r
  ELSE IF n = 1 THEN RefTwistStep(r)
  ELSE RefTwistLoop(RefTwistLoop(r, n \div 2), n - (n \div 2))

\* the 624 words after the generation step on the words old
RefRegenerate(old) == RefTwistLoop([old |-> old, cur |-> old, i |-> 0], 624).cur

\* the engine reloadMT was entered with, the fallback seeding done, in the
\* run the state belongs to; and what the whole call gives on it
RegenStart ==
  [first |-> [s \in Seeds |-> randomMT_dec(SeededRef[s])],
   second |-> SecondBatch]

RegenRef ==
  [first |-> [s \in Seeds |-> RefRegenerate(RegenStart.first[s].state)],
   second |-> [s \in Seeds |-> RefRegenerate(RegenStart.second[s].state)]]

RegenCall ==
  [first |-> [s \in Seeds |-> reloadMT(RegenStart.first[s])],
   second |-> [s \in Seeds |-> reloadMT(RegenStart.second[s])],
   fresh |-> reloadMT(randomMT_dec(FreshEngine))]

RegenBatch == IF calls < N THEN "first" ELSE "second"

RegenSeed == IF seeded = NoSeed THEN OneW ELSE seeded

RegenOld == RegenStart[RegenBatch][RegenSeed].state

RegenNew == RegenRef[RegenBatch][RegenSeed]

RegenWhole ==
  IF seeded = NoSeed THEN RegenCall.fresh ELSE RegenCall[RegenBatch][seeded]

\* C13: reloadMT stores to each of the words 0..623 exactly once, in
\* increasing index order, 227 of them in the first loop, 396 in the second
\* and word 623 in the statement after them; each word it stores is the one
\* the generation step of MT19937 defines, a being the word at index
\* (i + 397) mod 624 as it stands (old for i < 227, rewritten for i >= 227),
\* b the old word i+1, or the rewritten word 0 for i = 623; words not yet
\* stored to, and word 624, hold their old value.
C13_State ==
  pc # "reloadMT_entry" =>
    LET W == Len(writes)
    IN  /\ \A k \in 1..W : writes[k] = k - 1
        /\ \A i \in 0..(W - 1) : state[i] = RegenNew[i]
        /\ \A i \in W..N : state[i] = RegenOld[i]
        /\ pc = "reloadMT_loop1" =>
             (W <= 227 /\ reg.p0 = W /\ reg.pM = W + 397 /\ reg.pM >= W)
        /\ pc = "reloadMT_loop2" =>
             (W >= 227 /\ W <= 623 /\ reg.p0 = W /\ reg.pM = W - 227)
        /\ pc = "reloadMT_wrap" => (W = 623 /\ reg.p0 = 623 /\ reg.pM = 396)
        /\ pc \in {"reloadMT_temper", "reloadMT_done"} => W = 624
        /\ pc = "reloadMT_done" =>
             /\ Engine = RegenWhole.eng
             /\ ret = RegenWhole.val
             /\ fallback = RegenWhole.fb

C13_Step ==
  /\ pc # "reloadMT_entry" =>
       IF writes' = writes THEN state' = state
       ELSE /\ Len(writes') = Len(writes) + 1
            /\ SubSeq(writes', 1, Len(writes)) = writes
            /\ \A i \in 0..N :
                 i # writes'[Len(writes')] => state'[i] = state[i]
  /\ (pc = "reloadMT_loop1" /\ pc' = "reloadMT_loop2") => Len(writes) = 227
  /\ (pc = "reloadMT_loop2" /\ pc' = "reloadMT_wrap") => Len(writes) = 623

C13_RegenerateIsReference == [](C13_State) /\ [][C13_Step]_vars

\* the second regeneration after initialize(0xDEADBEEF) is over: 624 stores,
\* the last one to word 623, and word 0 is no longer the old one
C13_Witness ==
  /\ pc = "reloadMT_done"
  /\ seeded = <<\HDEAD, \HBEEF>>
  /\ calls = N + 1
  /\ Len(writes) = N
  /\ writes[N] = N - 1
  /\ state[0] # RegenOld[0]
  /\ state[N - 1] = RegenNew[N - 1]

\* the tempering of MT19937: shifts 11, 7, 15, 18, masks 0x9D2C5680 and
\* 0xEFC60000
RefTemper(w) ==
  LET a == XorW(w, ShrW(w, 11))
      b == XorW(a, AndW(ShlW(a, 7), <<40236, 22144>>))
      c == XorW(b, AndW(ShlW(b, 15), <<61382, 0>>))
  IN  XorW(c, ShrW(c, 18))

\* the two copies of the tempering, reloadMT's and randomMT's, against it
TemperAgree ==
  \A w \in LastWordInputs \cup Seeds :
    temper(w) = RefTemper(w) /\ temperY(w) = RefTemper(w)

\* C14: after initialize(S), call number k of next() goes through reloadMT
\* exactly when k = 1 (mod 624). Such a call returns the tempered word 0 of
\* the batch it made and leaves the countdown at 623 and the cursor on word
\* 1; call number k with (k - 1) mod 624 = m > 0 returns the tempered word m
\* of that batch, read at the cursor, which it moves from m to m + 1: the
\* words 1..623 are read in order, each once. Both kinds of call temper with
\* the shifts 11, 7, 15, 18 and the masks 0x9D2C5680, 0xEFC60000.
C14_State ==
  /\ seeded # NoSeed =>
       /\ pc = "reloadMT" => calls % N = 0
       /\ pc = "read" => (calls % N # 0 /\ next = calls % N)
       /\ (pc = "idle" /\ calls % N = 1) =>
            (left = N - 1 /\ next = 1 /\ ret = RefTemper(state[0]))
       /\ (pc = "idle" /\ calls > 0 /\ calls % N # 1) =>
            LET m == (calls - 1) % N
            IN  /\ m \in 1..(N - 1)
                /\ ret = RefTemper(state[m])
                /\ next = m + 1
                /\ left = N - 1 - m
  /\ TemperAgree

C14_Step ==
  seeded # NoSeed =>
    /\ (pc = "idle" /\ pc' = "reloadMT") => calls % N = 0
    /\ (pc = "idle" /\ pc' = "read") => calls % N # 0
    /\ (pc = "read" /\ pc' = "idle") =>
         /\ state' = state
         /\ next' = next + 1
         /\ calls' = calls + 1
         /\ ret' = RefTemper(state[next])

C14_BatchCadence == [](C14_State) /\ [][C14_Step]_vars

\* the last word of the first batch has been returned by call 624 and call
\* 625 has regenerated: countdown 623, cursor on word 1
C14_Witness ==
  /\ pc = "idle"
  /\ seeded = <<0, 1>>
  /\ calls = N + 1
  /\ left = N - 1
  /\ next = 1
  /\ ret = RefTemper(state[0])
  /\ ret # EngineRef[seeded][1]

\* C15: a next() call that does not go through reloadMT leaves every word of
\* state as it was, takes the countdown down by exactly 1 and moves the
\* cursor on by exactly one word; state changes only in a step in which
\* seedMT or reloadMT runs.
C15_Step ==
  /\ (pc = "idle" /\ pc' \in {"read", "reloadMT"}) =>
       (state' = state /\ next' = next /\ left' = left - 1)
  /\ (pc = "read" /\ pc' = "idle") =>
       (state' = state /\ next' = next + 1 /\ left' = left)
  /\ (pc = "for" /\ j' = j + 1 /\ left > 0) =>
       (state' = state /\ next' = next + 1 /\ left' = left - 1)
  /\ state' # state =>
       \/ pc = "idle" /\ pc' = "idle" /\ calls' = 0
       \/ pc = "while" /\ pc' = "for"
       \/ pc = "reloadMT" /\ pc' = "idle"
       \/ pc = "for" /\ j' = j + 1 /\ left = 0

\* the words the first regeneration of a trial leaves
TrialBatch ==
  [s \in TrialSeeds |->
     reloadMT(randomMT_dec(seedMT(FreshEngine, s))).eng.state]

C15_State ==
  /\ (pc = "idle" /\ seeded # NoSeed /\ calls \in 1..N) =>
       (state = RegenCall.first[seeded].eng.state /\ left = N - calls)
  /\ (pc = "for" /\ j > 0) =>
       (state = TrialBatch[current_seed] /\ left = N - j /\ next = j)

C15_ReadFrame == [](C15_State) /\ [][C15_Step]_vars

\* 623 calls after the regenerating one, the last word of the batch read:
\* the words are still those the regeneration left
C15_Witness ==
  /\ pc = "idle"
  /\ seeded = <<\HDEAD, \HBEEE>>
  /\ calls = N
  /\ left = 0
  /\ next = N
  /\ state = RegenCall.first[seeded].eng.state

\* C16: whenever randomMT reads through the cursor, the cursor is the one the
\* reloadMT of the current batch set to word 1, moved on once by each read
\* since: it is on word (calls completed since the latest seedMT) mod 624, a
\* word in 1..623, never NULL, never the stale cursor seedMT leaves, never
\* word 624. The cursor changes only in reloadMT and in a read; the first
\* call after seedMT, and the first call on an engine never initialized, go
\* through reloadMT before any read. After every completed call the cursor
\* index plus the countdown is 624.
C16_State ==
  /\ pc = "read" =>
       /\ next # NULL
       /\ next \in 1..(N - 1)
       /\ calls >= 1
       /\ next = calls % N
  /\ (pc = "for" /\ j \in 1..63) => (next = j /\ next \in 1..(N - 1))
  /\ (pc = "idle" /\ calls > 0) => (next \in 1..N /\ next + left = N)
  /\ (pc = "for" /\ j > 0) => next + left = N
  /\ (pc = "idle" /\ calls = 0 /\ seeded = NoSeed) => next = NULL

C16_Step ==
  /\ next' # next =>
       \/ pc = "reloadMT" /\ pc' = "idle" /\ next' = 1
       \/ pc = "read" /\ pc' = "idle" /\ next' = next + 1
       \/ pc = "for" /\ j = 0 /\ j' = 1 /\ next' = 1
       \/ pc = "for" /\ j > 0 /\ j' = j + 1 /\ next' = next + 1
  /\ (pc = "idle" /\ calls = 0 /\ pc' # "idle") => pc' = "reloadMT"
  /\ (pc = "idle" /\ left = 0 /\ pc' # "idle") => pc' = "reloadMT"
  /\ (pc = "for" /\ j = 0 /\ j' = 1) => next' = 1

C16_CursorSafety == [](C16_State) /\ [][C16_Step]_vars

\* the last word of a batch is about to be read: the cursor is on word 623
\* and the countdown has reached 0
C16_Witness ==
  /\ pc = "read"
  /\ seeded # NoSeed
  /\ calls = N - 1
  /\ next = N - 1
  /\ left = 0

\* initialize was issued in the middle of a batch: the cursor is the stale
\* one, the countdown is 0, and no read has yet followed
C16_StaleCursor ==
  /\ pc = "idle"
  /\ seeded # NoSeed
  /\ calls = 0
  /\ left = 0
  /\ next \in 2..(N - 1)

====
